---- MODULE Spec2Model ----
(***************************************************************************)
(* Model of torch_frame.data.Dataset (src/torch_frame/data/dataset.py):    *)
(* construction, materialization into a TensorFrame, row selection,        *)
(* shuffling and column selection.                                         *)
(*                                                                         *)
(* Python objects live in two heaps: `datasets` holds the Dataset          *)
(* instances and `dicts` holds the `_col_stats` dictionaries.  A Dataset   *)
(* stores a reference into `dicts`, because copy.copy(self) copies the     *)
(* reference to the dictionary, not the dictionary.  Data frames, the      *)
(* col_to_stype dictionaries and tensor frames are never updated in place  *)
(* by this file, so they are stored by value.                              *)
(*                                                                         *)
(* A call is one step, except where calls run side by side: there,         *)
(* materialize is taken apart into the steps of its two loops, and `calls` *)
(* holds the calls that have begun and not yet returned.                   *)
(*                                                                         *)
(* Row positions are Python's (0-based); TLA+ sequences are 1-based, so    *)
(* position p of a frame or tensor is element p + 1 of its sequence.       *)
(***************************************************************************)
EXTENDS Integers, Sequences, FiniteSets, TLC

VARIABLES
    datasets,   \* heap of Dataset instances: datasets[d] is instance d
    dicts,      \* heap of _col_stats dictionaries: dicts[r] maps column -> stats
    parent,     \* history: parent[d] is the instance d was copied from (0: constructed)
    last,       \* history: the most recent call, its arguments and its outcome
    calls       \* the materialize calls in progress: calls[d] is the position and
                \* the local variables of the call on instance d

vars == <<datasets, dicts, parent, last, calls>>

----------------------------------------------------------------------------
(* Bounds of the model *)

\* rows of a constructed table
NRows == 3
\* Dataset instances alive at once
MaxDatasets == 3
\* length of an index list / a column list passed by the caller
MaxLen == 2
\* rows of the table that slices are taken from
SliceRows == 10

----------------------------------------------------------------------------
(* Semantic types, values and the tables a Dataset is constructed from *)

numerical == "numerical"
categorical == "categorical"
\* a member of the stype enumeration that dataset.py has no branch for
text_embedded == "text_embedded"

\* Python's None, as a column name
None == "None"

\* the empty dictionary {}
EmptyDict == <<>>

\* dictionary d with d[k] = v assigned
DictSet(d, k, v) == [x \in (DOMAIN d) \cup {k} |-> IF x = k THEN v ELSE d[x]]

\* the columns of the constructed tables, in the table's column order
TableCols == <<"a", "b", "c", "t", "u">>

\* the set of elements of a sequence
Range(s) == {s[i] : i \in DOMAIN s}

\* The target column "t" of a constructed table: two categories whose
\* frequency order is their lexicographic order ("lex"), two categories whose
\* frequency order is the reverse ("rev"), or three categories ("three").
TargetPatterns == {"lex", "rev", "three"}

TargetValue(p, i) ==
    CASE p = "lex" -> IF i = NRows THEN 1 ELSE 0
      [] p = "rev" -> IF i = NRows THEN 0 ELSE 1
      [] OTHER     -> IF i = 1 THEN 2 ELSE IF i = NRows THEN 0 ELSE 1

\* row i (1-based) of the constructed table with target pattern p
TableRow(p, i) ==
    [c \in Range(TableCols) |->
        CASE c = "a" -> 10 * i
          [] c = "b" -> IF i = 1 THEN 7 ELSE 5
          [] c = "c" -> IF i = 2 THEN 4 ELSE 3
          [] c = "t" -> TargetValue(p, i)
          [] OTHER   -> 100 + i]

\* a pandas DataFrame: its column labels and its rows
Table(p) == [cols |-> TableCols, rows |-> [i \in 1..NRows |-> TableRow(p, i)]]

Tables == {Table(p) : p \in TargetPatterns}

\* an entry of a col_to_stype dictionary (dictionaries keep insertion order)
Item(c, s) == [col |-> c, stype |-> s]

\* the (col_to_stype, target_col) pairs a Dataset is constructed with: a
\* categorical target after its features, a target followed by a column of
\* an unsupported type, no target with two features of one type listed in
\* another order than the table's, and a numerical target
Schemas ==
    { [col_to_stype |-> <<Item("a", numerical), Item("b", categorical),
                          Item("t", categorical)>>, target_col |-> "t"],
      [col_to_stype |-> <<Item("t", categorical), Item("u", text_embedded),
                          Item("a", numerical)>>, target_col |-> "t"],
      [col_to_stype |-> <<Item("c", categorical), Item("a", numerical),
                          Item("b", categorical)>>, target_col |-> None],
      [col_to_stype |-> <<Item("a", numerical), Item("t", numerical)>>,
       target_col |-> "t"] }

----------------------------------------------------------------------------
(* pandas and Python helpers used by dataset.py *)

\* list(col_to_stype.keys())
Keys(c2s) == [i \in DOMAIN c2s |-> c2s[i].col]

\* col_to_stype[col], for col a key of the dictionary
StypeOf(c2s, col) == c2s[CHOOSE i \in DOMAIN c2s : c2s[i].col = col].stype

\* len(df)
NumRows(df) == Len(df.rows)

\* df[col]: the values of one column, as a series in row order
DfCol(df, col) == [i \in DOMAIN df.rows |-> df.rows[i][col]]

\* df[cols]: the frame projected to the columns cols, in the order of cols
DfCols(df, cols) ==
    [cols |-> cols,
     rows |-> [i \in DOMAIN df.rows |-> [c \in Range(cols) |-> df.rows[i][c]]]]

\* df.iloc[index] for a list (or index tensor) of row positions: a gather
Iloc(df, index) ==
    [cols |-> df.cols,
     rows |-> [i \in DOMAIN index |-> df.rows[index[i] + 1]]]

RECURSIVE SumSeq(_)
SumSeq(s) == IF s = <<>> THEN 0 ELSE Head(s) + SumSeq(Tail(s))

\* number of occurrences of v in the series
Occurrences(ser, v) == Cardinality({i \in DOMAIN ser : ser[i] = v})

\* position of the first occurrence of v in the series
FirstPos(ser, v) == CHOOSE i \in DOMAIN ser : ser[i] = v /\ \A j \in 1..(i - 1) : ser[j] # v

\* ser.value_counts(): the distinct values by descending count (equal counts
\* in order of first occurrence), and their counts
ValueCounts(ser) ==
    LET vals == Range(ser)
        Before(v, w) == \/ Occurrences(ser, v) > Occurrences(ser, w)
                        \/ /\ Occurrences(ser, v) = Occurrences(ser, w)
                           /\ FirstPos(ser, v) < FirstPos(ser, w)
        Rank(v) == 1 + Cardinality({w \in vals : Before(w, v)})
        index == [k \in 1..Cardinality(vals) |-> CHOOSE v \in vals : Rank(v) = k]
    IN  <<index, [k \in DOMAIN index |-> Occurrences(ser, index[k])]>>

\* pd.Series(index=index, data=value).sort_index(), returned as
\* (ser.index.tolist(), ser.values.tolist()): the categories in ascending
\* order, each with its own count
SortIndex(count) ==
    LET index == count[1]
        value == count[2]
        Rank(k) == 1 + Cardinality({j \in DOMAIN index : index[j] < index[k]})
        at == [r \in DOMAIN index |-> CHOOSE k \in DOMAIN index : Rank(k) = r]
    IN  <<[r \in DOMAIN index |-> index[at[r]]], [r \in DOMAIN index |-> value[at[r]]]>>

----------------------------------------------------------------------------
(* torch_frame.data.stats, torch_frame.data.mapper, torch_frame.data.TensorFrame *)

\* whether compute_col_stats has a calculator for the semantic type
HasCalculator(stype) == stype \in {numerical, categorical}

\* compute_col_stats(ser, stype).  MEAN is kept exactly as (sum, n) and STD as
\* (sum of squares, sum, n); COUNT is the (categories, counts) pair.
compute_col_stats(ser, stype) ==
    IF stype = numerical
    THEN [MEAN |-> <<SumSeq(ser), Len(ser)>>,
          STD  |-> <<SumSeq([i \in DOMAIN ser |-> ser[i] * ser[i]]), SumSeq(ser), Len(ser)>>]
    ELSE [COUNT |-> ValueCounts(ser)]

\* NumericalTensorMapper().forward(ser): the values as a floating tensor
NumericalForward(ser) == ser

\* the reserved index of a value that is not among the categories
MissingIndex == -1

\* CategoricalTensorMapper(index).forward(ser): the 0-based position of each
\* value in the category list, MissingIndex for a value that is not in it
CategoricalForward(index, ser) ==
    [i \in DOMAIN ser |->
        IF ser[i] \in Range(index)
        THEN (CHOOSE k \in DOMAIN index : index[k] = ser[i]) - 1
        ELSE MissingIndex]

\* a stack that puts the column tensors in reverse order
StackReversed(xs) == [r \in DOMAIN xs[1] |-> [j \in DOMAIN xs |-> xs[Len(xs) + 1 - j][r]]]

\* torch.stack(xs, dim=1): column tensors of n entries into an n x len(xs)
\* matrix, kept as a sequence of rows
Stack(xs) == [r \in DOMAIN xs[1] |-> [j \in DOMAIN xs |-> xs[j][r]]]

\* TensorFrame(x_dict, col_names_dict, y); y is <<>> for None, <<tensor>> otherwise
TensorFrame(x_dict, col_names_dict, y) ==
    [x_dict |-> x_dict, col_names_dict |-> col_names_dict, y |-> y]

\* tensor[index] along the row axis
Gather(tensor, index) == [i \in DOMAIN index |-> tensor[index[i] + 1]]

\* tensor_frame[index]: every feature tensor and the target gathered with the
\* same index, the column names kept
TensorFrameGetItem(tf, index) ==
    TensorFrame([s \in DOMAIN tf.x_dict |-> Gather(tf.x_dict[s], index)],
                tf.col_names_dict,
                [i \in DOMAIN tf.y |-> Gather(tf.y[i], index)])

----------------------------------------------------------------------------
(* Dataset: construction *)

\* the error a call ended with; NoError when it returned
NoError == "ok"
NotMaterializedError == "RuntimeError: requires a materialized dataset"
AlreadyMaterializedError == "RuntimeError: cannot be modified post materialization"
UnsupportedStypeStats == "UnsupportedSemanticType: no statistics calculator"
UnsupportedStype == "NotImplementedError: unable to process the semantic type"
KeyError == "KeyError"
MissingColumnsError == "ValueError: column(s) specified but missing in the data frame"
IlocError == "IndexError: .iloc requires numeric indexers"
AttributeError == "AttributeError: 'tuple' object has no attribute 'append'"
ListRemoveError == "ValueError: list.remove(x): x not in list"

\* Dataset.feat_cols: the keys of col_to_stype without the target column
feat_cols(self) ==
    IF self.target_col # None
    THEN SelectSeq(Keys(self.col_to_stype), LAMBDA c : c # self.target_col)
    ELSE Keys(self.col_to_stype)

\* the columns Dataset.__init__ looks for in the data frame
SpecifiedCols(self) ==
    feat_cols(self) \o (IF self.target_col = None THEN <<>> ELSE <<self.target_col>>)

\* set(cols) - set(df.columns)
MissingCols(self) == Range(SpecifiedCols(self)) \ Range(self.df.cols)

\* The Dataset that Dataset.__init__ leaves behind: ref is the reference of
\* the new, empty _col_stats dictionary; _tensor_frame is <<>> for None.
NewDataset(df, col_to_stype, target_col, ref) ==
    [df |-> df, col_to_stype |-> col_to_stype, target_col |-> target_col,
     is_materialized |-> FALSE, col_stats |-> ref, tensor_frame |-> <<>>]

\* Dataset.__init__(df, col_to_stype, target_col): the instance it leaves
\* behind (none when it raises), the error raised and the columns the error
\* names.  feat_cols is evaluated first; its cols.remove(target_col) raises
\* when target_col is not a key of col_to_stype.
Dataset_init(df, col_to_stype, target_col, ref) ==
    LET self == NewDataset(df, col_to_stype, target_col, ref)
    IN  IF target_col # None /\ target_col \notin Range(Keys(col_to_stype))
        THEN [self |-> <<>>, err |-> ListRemoveError, missing |-> {}]
        ELSE IF Cardinality(MissingCols(self)) > 0
        THEN [self |-> <<>>, err |-> MissingColumnsError, missing |-> MissingCols(self)]
        ELSE [self |-> <<self>>, err |-> NoError, missing |-> {}]

\* copy.copy(self): a new instance with the same field values, hence the same
\* reference to the _col_stats dictionary
Copy(self) == self

----------------------------------------------------------------------------
(* Dataset: materialization *)

\* materialize, step 1: for col, stype in col_to_stype.items(), from entry k
\* on: self._col_stats[col] = compute_col_stats(self.df[col], stype).  The
\* dictionary is updated in place, entry by entry, so the entries before a
\* failing column are kept.
RECURSIVE FillColStats(_, _, _)
FillColStats(self, k, stats) ==
    IF k > Len(self.col_to_stype) THEN [col_stats |-> stats, err |-> NoError]
    ELSE LET col == self.col_to_stype[k].col
             stype == self.col_to_stype[k].stype
         IN  IF ~HasCalculator(stype)
             THEN [col_stats |-> stats, err |-> UnsupportedStypeStats]
             ELSE FillColStats(self, k + 1,
                      DictSet(stats, col, compute_col_stats(DfCol(self.df, col), stype)))

\* defaultdict(list): d[k].append(v)
DictAppend(d, k, v) == DictSet(d, k, IF k \in DOMAIN d THEN Append(d[k], v) ELSE <<v>>)

\* whether _to_tensor_frame re-sorts the categories of the column
SortsCategories(self, col, index) == col = self.target_col /\ Len(index) = 2

\* an iteration that also appends the target column to the features
ToTensorFrameStepKeepsTarget(self, k, acc) ==
    LET col == self.col_to_stype[k].col
        stype == self.col_to_stype[k].stype
        ser == DfCol(self.df, col)
    IN  IF stype \notin {numerical, categorical}
        THEN [acc EXCEPT !.err = UnsupportedStype]
        ELSE LET count == acc.col_stats[col].COUNT
                 sorts == stype = categorical /\ SortsCategories(self, col, count[1])
                 index == IF sorts THEN SortIndex(count)[1] ELSE count[1]
                 stats == IF sorts
                          THEN DictSet(acc.col_stats, col,
                                       [acc.col_stats[col] EXCEPT !.COUNT = SortIndex(count)])
                          ELSE acc.col_stats
                 out == IF stype = numerical THEN NumericalForward(ser)
                        ELSE CategoricalForward(index, ser)
             IN  [acc EXCEPT !.col_stats = stats,
                             !.y = IF col = self.target_col THEN <<out>> ELSE @,
                             !.xs_dict = DictAppend(@, stype, out),
                             !.col_names_dict = DictAppend(@, stype, col)]

\* _to_tensor_frame, one iteration of the loop over col_to_stype.items(); acc
\* holds xs_dict, col_names_dict, y and the _col_stats dictionary
ToTensorFrameStep(self, k, acc) ==
    LET col == self.col_to_stype[k].col
        stype == self.col_to_stype[k].stype
        ser == DfCol(self.df, col)
    IN  IF stype \notin {numerical, categorical}
        THEN [acc EXCEPT !.err = UnsupportedStype]
        ELSE LET count == acc.col_stats[col].COUNT
                 sorts == stype = categorical /\ SortsCategories(self, col, count[1])
                 index == IF sorts THEN SortIndex(count)[1] ELSE count[1]
                 stats == IF sorts
                          THEN DictSet(acc.col_stats, col,
                                       [acc.col_stats[col] EXCEPT !.COUNT = SortIndex(count)])
                          ELSE acc.col_stats
                 out == IF stype = numerical THEN NumericalForward(ser)
                        ELSE CategoricalForward(index, ser)
             IN  IF col = self.target_col
                 THEN [acc EXCEPT !.col_stats = stats, !.y = <<out>>]
                 ELSE [acc EXCEPT !.col_stats = stats,
                                  !.xs_dict = DictAppend(@, stype, out),
                                  !.col_names_dict = DictAppend(@, stype, col)]

RECURSIVE ToTensorFrameLoop(_, _, _)
ToTensorFrameLoop(self, k, acc) ==
    IF k > Len(self.col_to_stype) \/ acc.err # NoError THEN acc
    ELSE ToTensorFrameLoop(self, k + 1, ToTensorFrameStep(self, k, acc))

\* Dataset._to_tensor_frame: the tensor frame, the _col_stats dictionary as
\* the method leaves it, and the error it raised (no tensor frame then)
to_tensor_frame(self, stats) ==
    LET acc == ToTensorFrameLoop(self, 1,
                   [xs_dict |-> EmptyDict, col_names_dict |-> EmptyDict, y |-> <<>>,
                    col_stats |-> stats, err |-> NoError])
        x_dict == [s \in DOMAIN acc.xs_dict |-> Stack(acc.xs_dict[s])]
    IN  [tensor_frame |-> TensorFrame(x_dict, acc.col_names_dict, acc.y),
         col_stats |-> acc.col_stats, err |-> acc.err]

\* a heap with one cell replaced
Store(heap, at, v) == [heap EXCEPT ![at] = v]

\* materialize without the early return: statistics and tensor frame are
\* computed again on every call
materialize_recomputes(d) ==
    LET self == datasets[d]
        ref == self.col_stats
        filled == FillColStats(self, 1, dicts[ref])
        built == to_tensor_frame(self, filled.col_stats)
    IN  IF filled.err # NoError
        THEN [datasets |-> datasets, dicts |-> [dicts EXCEPT ![ref] = filled.col_stats],
              err |-> filled.err]
        ELSE IF built.err # NoError
        THEN [datasets |-> datasets, dicts |-> [dicts EXCEPT ![ref] = built.col_stats],
              err |-> built.err]
        ELSE [datasets |-> [datasets EXCEPT ![d] =
                               [self EXCEPT !.tensor_frame = <<built.tensor_frame>>,
                                            !.is_materialized = TRUE]],
              dicts |-> [dicts EXCEPT ![ref] = built.col_stats],
              err |-> NoError]

\* materialize that marks the Dataset as materialized before it builds the
\* tensor frame, so that a failing build leaves the mark behind
materialize_marks_first(d) ==
    LET self == datasets[d]
        ref == self.col_stats
        filled == FillColStats(self, 1, dicts[ref])
        built == to_tensor_frame(self, filled.col_stats)
        marked == [datasets EXCEPT ![d] = [self EXCEPT !.is_materialized = TRUE]]
    IN  IF self.is_materialized
        THEN [datasets |-> datasets, dicts |-> dicts, err |-> NoError]
        ELSE IF filled.err # NoError
        THEN [datasets |-> marked, dicts |-> [dicts EXCEPT ![ref] = filled.col_stats],
              err |-> filled.err]
        ELSE IF built.err # NoError
        THEN [datasets |-> marked, dicts |-> [dicts EXCEPT ![ref] = built.col_stats],
              err |-> built.err]
        ELSE [datasets |-> [datasets EXCEPT ![d] =
                               [self EXCEPT !.tensor_frame = <<built.tensor_frame>>,
                                            !.is_materialized = TRUE]],
              dicts |-> [dicts EXCEPT ![ref] = built.col_stats],
              err |-> NoError]

\* materialize that passes over a column it cannot process: it keeps what was
\* built from the other columns and marks the Dataset as materialized
materialize_skips_unsupported(d) ==
    LET self == datasets[d]
        ref == self.col_stats
        filled == FillColStats(self, 1, dicts[ref])
        built == to_tensor_frame(self, filled.col_stats)
    IN  IF self.is_materialized
        THEN [datasets |-> datasets, dicts |-> dicts, err |-> NoError]
        ELSE [datasets |-> Store(datasets, d,
                               [self EXCEPT !.tensor_frame = <<built.tensor_frame>>,
                                            !.is_materialized = TRUE]),
              dicts |-> Store(dicts, ref, built.col_stats),
              err |-> NoError]

\* Dataset.materialize on instance d: the two heaps after the call, and the
\* error it raised
materialize(d) ==
    LET self == datasets[d]
        ref == self.col_stats
        filled == FillColStats(self, 1, dicts[ref])
        built == to_tensor_frame(self, filled.col_stats)
    IN  IF self.is_materialized
        THEN [datasets |-> datasets, dicts |-> dicts, err |-> NoError]
        ELSE IF filled.err # NoError
        THEN [datasets |-> datasets, dicts |-> Store(dicts, ref, filled.col_stats),
              err |-> filled.err]
        ELSE IF built.err # NoError
        THEN [datasets |-> datasets, dicts |-> Store(dicts, ref, built.col_stats),
              err |-> built.err]
        ELSE [datasets |-> Store(datasets, d,
                               [self EXCEPT !.tensor_frame = <<built.tensor_frame>>,
                                            !.is_materialized = TRUE]),
              dicts |-> Store(dicts, ref, built.col_stats),
              err |-> NoError]

----------------------------------------------------------------------------
(* Dataset: the materialization guards, row and column selection *)

\* requires_post_materialization: whether the wrapped function is entered
requires_post_materialization(self) == self.is_materialized

\* a guard that lets every call through
never_rejects(self) == TRUE

\* requires_pre_materialization: whether the wrapped function is entered
requires_pre_materialization(self) == ~self.is_materialized

\* an index argument: an int k, or a list / index tensor of row positions
IntIndex(k) == [kind |-> "int", k |-> k, list |-> <<>>]
ListIndex(l) == [kind |-> "list", k |-> 0, list |-> l]
TensorIndex(l) == [kind |-> "tensor", k |-> 0, list |-> l]

\* a bound of a slice: None, an int, or a float, given as the fraction num/den
NoBound == [kind |-> "none", int |-> 0, num |-> 0, den |-> 1]
IntBound(k) == [kind |-> "int", int |-> k, num |-> 0, den |-> 1]
FloatBound(num, den) == [kind |-> "float", int |-> 0, num |-> num, den |-> den]

\* the index argument slice(start, stop, step)
SliceIndex(start, stop, step) ==
    [kind |-> "slice", k |-> 0, list |-> <<>>, start |-> start, stop |-> stop, step |-> step]

\* a list index with an element that is not an int
InvalidIndex == [kind |-> "invalid", k |-> 0, list |-> <<>>]

\* int(a / b): the fraction cut off toward zero, for a >= 0 and b > 0
Truncate(a, b) == a \div b

\* round(a / b) for b > 0: the nearest integer, the even one of the two when
\* a / b lies halfway between them
Round(a, b) ==
    LET floor == a \div b
        twice == 2 * (a % b)
    IN  IF twice < b THEN floor
        ELSE IF twice > b THEN floor + 1
        ELSE IF floor % 2 = 0 THEN floor ELSE floor + 1

\* index_select, lines 213-216: round(bound * len(self)) for a float bound
RoundBound(bound, n) ==
    IF bound.kind = "float" THEN IntBound(Round(bound.num * n, bound.den)) ELSE bound

\* index_select, lines 210-217: the slice with its float bounds replaced
ResolveSlice(index, n) ==
    IF index.kind = "slice"
    THEN SliceIndex(RoundBound(index.start, n), RoundBound(index.stop, n), index.step)
    ELSE index

\* the row positions that a slice with int or None bounds and a positive or
\* None step selects from n rows: range(*slice.indices(n))
SliceRange(index, n) ==
    LET step == IF index.step.kind = "none" THEN 1 ELSE index.step.int
        Clamp(b, default) ==
            IF b.kind = "none" THEN default
            ELSE IF b.int < 0 THEN (IF b.int + n < 0 THEN 0 ELSE b.int + n)
            ELSE IF b.int > n THEN n ELSE b.int
        lo == Clamp(index.start, 0)
        hi == Clamp(index.stop, n)
        count == IF hi > lo THEN (hi - lo + step - 1) \div step ELSE 0
    IN  [i \in 1..count |-> lo + (i - 1) * step]

\* an int index taken as the list of the positions before it
AsRange(index) ==
    IF index.kind = "int" THEN [i \in 1..index.k |-> i - 1] ELSE index.list

\* index_select, lines 207-208: an int becomes the one-element list
AsList(index) == IF index.kind = "int" THEN <<index.k>> ELSE index.list

\* index_select that leaves the table of the copy unselected
index_select_keeps_df(d, index) ==
    LET self == datasets[d]
        idx == IF index.kind = "int" THEN <<index.k>> ELSE index.list
        dataset == [self EXCEPT
                       !.tensor_frame = <<TensorFrameGetItem(self.tensor_frame[1], idx)>>]
    IN  IF ~self.is_materialized
        THEN [datasets |-> datasets, out |-> 0, err |-> NotMaterializedError]
        ELSE [datasets |-> Append(datasets, dataset), out |-> Len(datasets) + 1,
              err |-> NoError]

\* index_select that builds its result with the constructor, which leaves it
\* unmaterialized
index_select_constructs(d, index) ==
    LET self == datasets[d]
        idx == AsList(index)
        dataset == [NewDataset(Iloc(self.df, idx), self.col_to_stype, self.target_col,
                               self.col_stats)
                       EXCEPT !.tensor_frame = <<TensorFrameGetItem(self.tensor_frame[1], idx)>>]
    IN  IF ~self.is_materialized
        THEN [datasets |-> datasets, out |-> 0, err |-> NotMaterializedError]
        ELSE [datasets |-> Append(datasets, dataset), out |-> Len(datasets) + 1,
              err |-> NoError]

\* Dataset.index_select on instance d: the instance heap after the call, the
\* instance returned (0: none) and the error raised.  df.iloc and the tensor
\* frame are indexed with the same positions; a list with an element that is
\* not an int makes df.iloc raise, after the copy and before any assignment.
index_select(d, index) ==
    LET self == datasets[d]
        resolved == ResolveSlice(index, NumRows(self.df))
        idx == IF resolved.kind = "slice"
               THEN SliceRange(resolved, NumRows(self.df))
               ELSE AsList(resolved)
        dataset == [Copy(self) EXCEPT
                       !.df = Iloc(self.df, idx),
                       !.tensor_frame = <<TensorFrameGetItem(self.tensor_frame[1], idx)>>]
    IN  IF ~requires_post_materialization(self)
        THEN [datasets |-> datasets, out |-> 0, err |-> NotMaterializedError]
        ELSE IF index.kind = "invalid"
        THEN [datasets |-> datasets, out |-> 0, err |-> IlocError]
        ELSE [datasets |-> Append(datasets, dataset), out |-> Len(datasets) + 1,
              err |-> NoError]

\* shuffle that returns the permutation whether it is asked for or not
shuffle_always_returns_perm(d, perm, return_perm) ==
    LET r == index_select(d, TensorIndex(perm))
    IN  [datasets |-> r.datasets, out |-> r.out, err |-> r.err,
         ret_perm |-> IF r.err = NoError THEN <<perm>> ELSE <<>>]

\* Dataset.shuffle on instance d, perm being the value of
\* torch.randperm(len(self)); ret_perm is <<perm>> when the permutation is
\* returned with the Dataset and <<>> when the Dataset is returned alone
shuffle(d, perm, return_perm) ==
    LET r == index_select(d, TensorIndex(perm))
    IN  [datasets |-> r.datasets, out |-> r.out, err |-> r.err,
         ret_perm |-> IF r.err = NoError /\ return_perm THEN <<perm>> ELSE <<>>]

\* a cols argument: a column name, or a list of column names
StrCols(c) == [kind |-> "str", name |-> c, list |-> <<>>]
ListCols(l) == [kind |-> "list", name |-> None, list |-> l]
TupleCols(l) == [kind |-> "tuple", name |-> None, list |-> l]

\* the list as given: the target column is not appended
ColsGiven(self, cols) == IF cols.kind = "str" THEN <<cols.name>> ELSE cols.list

\* col_select, lines 240-243: the list that is used to project
ColsUsed(self, cols) ==
    LET given == IF cols.kind = "str" THEN <<cols.name>> ELSE cols.list
    IN  IF self.target_col # None /\ self.target_col \notin Range(given)
        THEN Append(given, self.target_col)
        ELSE given

\* {col: self.col_to_stype[col] for col in cols}
ProjectStypes(c2s, cols) == [i \in DOMAIN cols |-> Item(cols[i], StypeOf(c2s, cols[i]))]

\* col_select, lines 240-243: the caller's cols object after the call.  For a
\* list, the local name cols is bound to the caller's list, so that
\* cols.append(self.target_col) appends to the caller's list.
ColsAfter(self, cols) ==
    IF cols.kind = "list" THEN ListCols(ColsUsed(self, cols)) ELSE cols

\* Dataset.col_select on instance d: the instance heap after the call, the
\* instance returned (0: none), the error raised, and the caller's cols
\* object after the call.  A tuple has no append, and df[cols] looks a tuple
\* up as one column label, which no table here has.
col_select(d, cols) ==
    LET self == datasets[d]
        used == ColsUsed(self, cols)
        dataset == [Copy(self) EXCEPT
                       !.df = DfCols(self.df, used),
                       !.col_to_stype = ProjectStypes(self.col_to_stype, used)]
    IN  IF ~requires_pre_materialization(self)
        THEN [datasets |-> datasets, out |-> 0, err |-> AlreadyMaterializedError,
              cols |-> cols]
        ELSE IF cols.kind = "tuple"
        THEN [datasets |-> datasets, out |-> 0,
              err |-> IF used # cols.list THEN AttributeError ELSE KeyError,
              cols |-> cols]
        ELSE IF \/ ~(Range(used) \subseteq Range(self.df.cols))
                \/ ~(Range(used) \subseteq Range(Keys(self.col_to_stype)))
        THEN [datasets |-> datasets, out |-> 0, err |-> KeyError,
              cols |-> ColsAfter(self, cols)]
        ELSE [datasets |-> Append(datasets, dataset), out |-> Len(datasets) + 1,
              err |-> NoError, cols |-> ColsAfter(self, cols)]

\* an element of a list or tuple key: a str or an int
StrElem(c) == [type |-> "str", str |-> c, int |-> 0]
IntElem(k) == [type |-> "int", str |-> "", int |-> k]

\* a key of dataset[key]: a str, a list or a tuple of elements, or an int, a
\* slice or an index tensor (given as the index argument it is)
StrKey(c) == [kind |-> "str", name |-> c, elems |-> <<>>, index |-> InvalidIndex]
ListKey(elems) == [kind |-> "list", name |-> None, elems |-> elems, index |-> InvalidIndex]
TupleKey(elems) == [kind |-> "tuple", name |-> None, elems |-> elems, index |-> InvalidIndex]
IndexKey(index) == [kind |-> "index", name |-> None, elems |-> <<>>, index |-> index]

\* the label of an int among column names: not a column of any table
IntLabel == "<int>"

\* the key as the cols argument of col_select
KeyAsCols(key) ==
    LET labels == [i \in DOMAIN key.elems |->
                      IF key.elems[i].type = "str" THEN key.elems[i].str ELSE IntLabel]
    IN  CASE key.kind = "str"   -> StrCols(key.name)
          [] key.kind = "tuple" -> TupleCols(labels)
          [] OTHER              -> ListCols(labels)

\* the key as the index argument of index_select
KeyAsIndex(key) ==
    IF key.kind = "index" THEN key.index
    ELSE IF \A i \in DOMAIN key.elems : key.elems[i].type = "int"
    THEN ListIndex([i \in DOMAIN key.elems |-> key.elems[i].int])
    ELSE InvalidIndex

\* a test that takes a sequence with a str anywhere in it for a column selection
is_col_select_any_str(key) ==
    \/ key.kind = "str"
    \/ /\ key.kind \in {"list", "tuple"}
       /\ \E i \in DOMAIN key.elems : key.elems[i].type = "str"

\* __getitem__, lines 102-104: is_col_select
is_col_select(key) ==
    \/ key.kind = "str"
    \/ /\ key.kind \in {"list", "tuple"}
       /\ Len(key.elems) > 0
       /\ key.elems[1].type = "str"

\* Dataset.__getitem__ on instance d
getitem(d, key) ==
    IF is_col_select(key)
    THEN col_select(d, KeyAsCols(key))
    ELSE index_select(d, KeyAsIndex(key))

\* the tensor_frame and col_stats properties: the error the read raises
tensor_frame(d) ==
    IF requires_post_materialization(datasets[d]) THEN NoError ELSE NotMaterializedError

col_stats(d) ==
    IF requires_post_materialization(datasets[d]) THEN NoError ELSE NotMaterializedError

----------------------------------------------------------------------------
(* The arguments a caller passes *)

\* the sequences over S of length lo..hi
SeqsOf(S, lo, hi) == UNION {[1..n -> S] : n \in lo..hi}

\* the sequences without a repeated element
Distinct(s) == \A i, j \in DOMAIN s : s[i] = s[j] => i = j

\* index arguments with valid row positions for a Dataset of n rows
IndexArgs(n) ==
    {IntIndex(k) : k \in 0..(n - 1)}
        \cup {ListIndex(l) : l \in SeqsOf(0..(n - 1), 0, MaxLen)}

\* the values torch.randperm(n) can have
Perms(n) == {p \in [1..n -> 0..(n - 1)] : Distinct(p)}

\* cols arguments: a column of the data frame, or a list of distinct columns
ColsArgs(df) ==
    {StrCols(c) : c \in Range(df.cols)}
        \cup {ListCols(l) : l \in {x \in SeqsOf(Range(df.cols), 1, MaxLen) : Distinct(x)}}

\* the bounds of the slices: None, an int from either end, and fractions
SliceStarts == {NoBound, IntBound(1), FloatBound(1, 4)}
SliceStops == {NoBound, IntBound(-1), FloatBound(1, 2), FloatBound(3, 4)}

\* slice arguments without a step, and with a step of 2
SliceArgs ==
    {SliceIndex(start, stop, NoBound) : start \in SliceStarts, stop \in SliceStops}
        \cup {SliceIndex(NoBound, stop, IntBound(2)) : stop \in SliceStops}

\* the keys that __getitem__ takes for a column selection
ColKeys(df) ==
    LET names == {x \in SeqsOf(Range(df.cols), 1, MaxLen) : Distinct(x)}
        Elems(x) == [i \in DOMAIN x |-> StrElem(x[i])]
    IN  {StrKey(c) : c \in Range(df.cols)}
            \cup {ListKey(Elems(x)) : x \in names}
            \cup {TupleKey(<<StrElem(c)>>) : c \in Range(df.cols)}
            \cup {ListKey(<<StrElem(df.cols[1]), IntElem(0)>>)}

\* the keys that __getitem__ takes for a row selection from n rows
RowKeys(n) ==
    {IndexKey(IntIndex(k)) : k \in 0..(n - 1)}
        \cup {IndexKey(SliceIndex(NoBound, stop, NoBound)) : stop \in SliceStops}
        \cup {IndexKey(TensorIndex(l)) : l \in SeqsOf(0..(n - 1), 1, 1)}
        \cup {ListKey([i \in DOMAIN l |-> IntElem(l[i])]) : l \in SeqsOf(0..(n - 1), 0, MaxLen)}
        \cup {ListKey(<<IntElem(0), StrElem("a")>>)}

----------------------------------------------------------------------------
(* The state machine *)

NoIndex == ListIndex(<<>>)
NoCols == ListCols(<<>>)
NoKey == ListKey(<<>>)
\* the arguments of a call that is not a construction
NoInit == [df_cols |-> <<>>, col_to_stype |-> <<>>, target_col |-> None]
\* the arguments of a construction: the table's columns, col_to_stype, target_col
InitArgs(df, col_to_stype, target_col) ==
    [df_cols |-> df.cols, col_to_stype |-> col_to_stype, target_col |-> target_col]

\* the record of a call on instance d: whether d was materialized when the
\* call was made, the instance returned (0: none), the error raised, and the
\* arguments (recorded for the calls that returned)
Call(op, d, out, err, index, cols, ret_perm) ==
    [op |-> op, self |-> d, out |-> out, err |-> err,
     was_materialized |-> d \in DOMAIN datasets /\ datasets[d].is_materialized,
     index |-> IF err = NoError THEN index ELSE NoIndex,
     cols |-> IF err = NoError THEN cols ELSE NoCols,
     ret_perm |-> ret_perm,
     init |-> NoInit, missing |-> {}, key |-> NoKey, return_perm |-> FALSE,
     cols_after |-> NoCols]

Init ==
    \E df \in Tables, sc \in Schemas :
        LET self == NewDataset(df, sc.col_to_stype, sc.target_col, 1)
        IN  /\ MissingCols(self) = {}
            /\ datasets = <<self>>
            /\ dicts = <<EmptyDict>>
            /\ parent = <<0>>
            /\ calls = EmptyDict
            /\ last = [op |-> "__init__", self |-> 1, out |-> 1, err |-> NoError,
                       was_materialized |-> FALSE, index |-> NoIndex,
                       cols |-> NoCols, ret_perm |-> <<>>,
                       init |-> InitArgs(df, sc.col_to_stype, sc.target_col),
                       missing |-> {}, key |-> NoKey, return_perm |-> FALSE,
                       cols_after |-> NoCols]

\* MaxDatasets bounds the instances, and with them the calls that are
\* explored: selections and property reads are made while there is room on
\* the heap for one more instance; materialize is always explored.
Room == Len(datasets) < MaxDatasets

Materialize(d) ==
    LET r == materialize(d)
    IN  /\ datasets' = r.datasets
        /\ dicts' = r.dicts
        /\ parent' = parent
        /\ last' = Call("materialize", d, IF r.err = NoError THEN d ELSE 0, r.err,
                        NoIndex, NoCols, <<>>)
        /\ UNCHANGED calls

IndexSelect(d, index) ==
    LET r == index_select(d, index)
    IN  /\ Room
        /\ datasets' = r.datasets
        /\ parent' = IF r.out # 0 THEN Append(parent, d) ELSE parent
        /\ last' = Call("index_select", d, r.out, r.err, index, NoCols, <<>>)
        /\ UNCHANGED <<dicts, calls>>

Shuffle(d, perm, return_perm) ==
    LET r == shuffle(d, perm, return_perm)
    IN  /\ Room
        /\ datasets' = r.datasets
        /\ parent' = IF r.out # 0 THEN Append(parent, d) ELSE parent
        /\ last' = [Call("shuffle", d, r.out, r.err, TensorIndex(perm), NoCols, r.ret_perm)
                       EXCEPT !.return_perm = return_perm]
        /\ UNCHANGED <<dicts, calls>>

ColSelect(d, cols) ==
    LET r == col_select(d, cols)
    IN  /\ Room
        /\ datasets' = r.datasets
        /\ parent' = IF r.out # 0 THEN Append(parent, d) ELSE parent
        /\ last' = [Call("col_select", d, r.out, r.err, NoIndex, cols, <<>>)
                       EXCEPT !.cols_after = IF r.err = NoError THEN r.cols ELSE NoCols]
        /\ UNCHANGED <<dicts, calls>>

ReadTensorFrame(d) ==
    /\ Room
    /\ last' = Call("tensor_frame", d, 0, tensor_frame(d), NoIndex, NoCols, <<>>)
    /\ UNCHANGED <<datasets, dicts, parent, calls>>

ReadColStats(d) ==
    /\ Room
    /\ last' = Call("col_stats", d, 0, col_stats(d), NoIndex, NoCols, <<>>)
    /\ UNCHANGED <<datasets, dicts, parent, calls>>

\* A call that a materialization guard rejects does not look at its
\* arguments: one argument stands for all of them.
IndexArgsOf(d) ==
    IF datasets[d].is_materialized THEN IndexArgs(NumRows(datasets[d].df)) ELSE {NoIndex}

PermsOf(d) ==
    IF datasets[d].is_materialized THEN Perms(NumRows(datasets[d].df)) ELSE {<<>>}

ColsArgsOf(d) ==
    IF datasets[d].is_materialized THEN {NoCols} ELSE ColsArgs(datasets[d].df)

Next ==
    \/ \E d \in DOMAIN datasets : Materialize(d)
    \/ \E d \in DOMAIN datasets : \E index \in IndexArgsOf(d) : IndexSelect(d, index)
    \/ \E d \in DOMAIN datasets :
           \E perm \in PermsOf(d), return_perm \in BOOLEAN : Shuffle(d, perm, return_perm)
    \/ \E d \in DOMAIN datasets : \E cols \in ColsArgsOf(d) : ColSelect(d, cols)
    \/ \E d \in DOMAIN datasets : ReadTensorFrame(d)
    \/ \E d \in DOMAIN datasets : ReadColStats(d)

Spec == Init /\ [][Next]_vars

----------------------------------------------------------------------------
(* Indexing: dataset[key] *)

GetItem(d, key) ==
    LET r == getitem(d, key)
    IN  /\ Room
        /\ datasets' = r.datasets
        /\ parent' = IF r.out # 0 THEN Append(parent, d) ELSE parent
        /\ last' = [Call("__getitem__", d, r.out, r.err, NoIndex, NoCols, <<>>)
                       EXCEPT !.key = key]
        /\ UNCHANGED <<dicts, calls>>

\* A call that a materialization guard rejects does not look at its
\* arguments: one key of each type stands for the keys of the type.
KeysOf(d) ==
    IF datasets[d].is_materialized
    THEN RowKeys(NumRows(datasets[d].df))
             \cup {StrKey("a"), ListKey(<<StrElem("a")>>), TupleKey(<<StrElem("a")>>),
                   ListKey(<<StrElem("a"), IntElem(0)>>)}
    ELSE ColKeys(datasets[d].df)
             \cup {IndexKey(IntIndex(0)), IndexKey(TensorIndex(<<0>>)),
                   IndexKey(SliceIndex(NoBound, FloatBound(1, 2), NoBound)),
                   ListKey(<<>>), ListKey(<<IntElem(0)>>),
                   ListKey(<<IntElem(0), StrElem("a")>>)}

NextIndexing ==
    \/ \E d \in DOMAIN datasets : Materialize(d)
    \/ \E d \in DOMAIN datasets : \E key \in KeysOf(d) : GetItem(d, key)

SpecIndexing == Init /\ [][NextIndexing]_vars

----------------------------------------------------------------------------
(* Calls side by side: materialize in steps, on instances that col_select made *)

\* the local variables of a materialize call that has just passed line 125
NewCall ==
    [pc |-> "stats", k |-> 1, xs_dict |-> EmptyDict, col_names_dict |-> EmptyDict, y |-> <<>>]

\* the calls in progress without the call on d
Returns(d) == [x \in (DOMAIN calls) \ {d} |-> calls[x]]

\* lines 121-125: the call begins; on a materialized Dataset it returns at once
MaterializeBegin(d) ==
    /\ d \notin DOMAIN calls
    /\ IF datasets[d].is_materialized
       THEN /\ last' = Call("materialize", d, d, NoError, NoIndex, NoCols, <<>>)
            /\ UNCHANGED <<datasets, dicts, parent, calls>>
       ELSE /\ calls' = DictSet(calls, d, NewCall)
            /\ UNCHANGED <<datasets, dicts, parent, last>>

\* lines 128-129, one iteration: the statistics of column k are written into
\* the dictionary that self._col_stats refers to
ColStatsStep(d) ==
    /\ d \in DOMAIN calls
    /\ calls[d].pc = "stats"
    /\ LET self == datasets[d]
           k == calls[d].k
           col == self.col_to_stype[k].col
           stype == self.col_to_stype[k].stype
       IN  IF ~HasCalculator(stype)
           THEN /\ calls' = Returns(d)
                /\ last' = Call("materialize", d, 0, UnsupportedStypeStats, NoIndex, NoCols, <<>>)
                /\ UNCHANGED <<datasets, dicts, parent>>
           ELSE /\ dicts' = Store(dicts, self.col_stats,
                                  DictSet(dicts[self.col_stats], col,
                                          compute_col_stats(DfCol(self.df, col), stype)))
                /\ calls' = [calls EXCEPT ![d].k = IF k = Len(self.col_to_stype) THEN 1 ELSE k + 1,
                                          ![d].pc = IF k = Len(self.col_to_stype)
                                                    THEN "frame" ELSE "stats"]
                /\ UNCHANGED <<datasets, parent, last>>

\* lines 165-192, one iteration of _to_tensor_frame: the statistics of column
\* k are read from the dictionary, re-sorted and written back for a binary
\* target, and the column is mapped
TensorStep(d) ==
    /\ d \in DOMAIN calls
    /\ calls[d].pc = "frame"
    /\ LET self == datasets[d]
           k == calls[d].k
           acc == ToTensorFrameStep(self, k,
                      [xs_dict |-> calls[d].xs_dict, col_names_dict |-> calls[d].col_names_dict,
                       y |-> calls[d].y, col_stats |-> dicts[self.col_stats], err |-> NoError])
       IN  IF acc.err # NoError
           THEN /\ calls' = Returns(d)
                /\ last' = Call("materialize", d, 0, acc.err, NoIndex, NoCols, <<>>)
                /\ UNCHANGED <<datasets, dicts, parent>>
           ELSE /\ dicts' = Store(dicts, self.col_stats, acc.col_stats)
                /\ calls' = [calls EXCEPT ![d] =
                                 [pc |-> IF k = Len(self.col_to_stype) THEN "store" ELSE "frame",
                                  k |-> k + 1, xs_dict |-> acc.xs_dict,
                                  col_names_dict |-> acc.col_names_dict, y |-> acc.y]]
                /\ UNCHANGED <<datasets, parent, last>>

\* lines 194-199 and 132: the tensors are stacked and the tensor frame is stored
StoreTensorFrame(d) ==
    /\ d \in DOMAIN calls
    /\ calls[d].pc = "store"
    /\ LET x_dict == [s \in DOMAIN calls[d].xs_dict |-> Stack(calls[d].xs_dict[s])]
           tf == TensorFrame(x_dict, calls[d].col_names_dict, calls[d].y)
       IN  datasets' = Store(datasets, d, [datasets[d] EXCEPT !.tensor_frame = <<tf>>])
    /\ calls' = [calls EXCEPT ![d].pc = "mark"]
    /\ UNCHANGED <<dicts, parent, last>>

\* lines 135-137: the Dataset is marked as materialized and the call returns
MarkMaterialized(d) ==
    /\ d \in DOMAIN calls
    /\ calls[d].pc = "mark"
    /\ datasets' = Store(datasets, d, [datasets[d] EXCEPT !.is_materialized = TRUE])
    /\ calls' = Returns(d)
    /\ last' = Call("materialize", d, d, NoError, NoIndex, NoCols, <<>>)
    /\ UNCHANGED <<dicts, parent>>

\* the cols arguments of the col_select calls that are made between the
\* steps: column names
ColNamesOf(d) == {cols \in ColsArgsOf(d) : cols.kind = "str" \/ cols = NoCols}

NextInterleaved ==
    \/ \E d \in DOMAIN datasets : \E cols \in ColNamesOf(d) : ColSelect(d, cols)
    \/ \E d \in DOMAIN datasets : MaterializeBegin(d)
    \/ \E d \in DOMAIN datasets : ColStatsStep(d)
    \/ \E d \in DOMAIN datasets : TensorStep(d)
    \/ \E d \in DOMAIN datasets : StoreTensorFrame(d)
    \/ \E d \in DOMAIN datasets : MarkMaterialized(d)

SpecInterleaved == Init /\ [][NextInterleaved]_vars

----------------------------------------------------------------------------
(* Slicing: index_select with slices, from a table of SliceRows rows *)

LongTable ==
    [cols |-> TableCols, rows |-> [i \in 1..SliceRows |-> TableRow("three", i)]]

SlicesOf(d) ==
    IF datasets[d].is_materialized THEN SliceArgs
    ELSE {SliceIndex(NoBound, FloatBound(1, 2), NoBound)}

InitSlices ==
    LET col_to_stype == <<Item("a", numerical), Item("b", categorical),
                          Item("t", categorical)>>
    IN  /\ datasets = <<NewDataset(LongTable, col_to_stype, "t", 1)>>
        /\ dicts = <<EmptyDict>>
        /\ parent = <<0>>
        /\ calls = EmptyDict
        /\ last = [Call("__init__", 0, 1, NoError, NoIndex, NoCols, <<>>)
                      EXCEPT !.init = InitArgs(LongTable, col_to_stype, "t")]

NextSlices ==
    \/ \E d \in DOMAIN datasets : Materialize(d)
    \/ \E d \in DOMAIN datasets : \E index \in SlicesOf(d) : IndexSelect(d, index)

SpecSlices == InitSlices /\ [][NextSlices]_vars

----------------------------------------------------------------------------
(* Construction: Dataset(df, col_to_stype, target_col) as a call that can fail *)

\* (col_to_stype, target_col) pairs that Dataset.__init__ rejects: a key that
\* is not a column of the table, a target that is a key and not a column, two
\* keys that are not columns, and a target that is not a key, be it a column
\* of the table or not
BadSchemas ==
    { [col_to_stype |-> <<Item("a", numerical), Item("z", categorical)>>,
       target_col |-> None],
      [col_to_stype |-> <<Item("a", numerical), Item("z", categorical)>>,
       target_col |-> "z"],
      [col_to_stype |-> <<Item("y", numerical), Item("a", numerical),
                          Item("z", categorical)>>, target_col |-> "a"],
      [col_to_stype |-> <<Item("a", numerical)>>, target_col |-> "z"],
      [col_to_stype |-> <<Item("a", numerical)>>, target_col |-> "b"] }

\* no call has been made and no Dataset exists
InitConstruct ==
    /\ datasets = <<>>
    /\ dicts = <<>>
    /\ parent = <<>>
    /\ calls = EmptyDict
    /\ last = Call("none", 0, 0, NoError, NoIndex, NoCols, <<>>)

\* Dataset(df, col_to_stype, target_col): a new instance with a new, empty
\* _col_stats dictionary, or an error and no instance
Construct(df, col_to_stype, target_col) ==
    LET r == Dataset_init(df, col_to_stype, target_col, Len(dicts) + 1)
        out == IF r.err = NoError THEN Len(datasets) + 1 ELSE 0
    IN  /\ Room
        /\ datasets' = datasets \o r.self
        /\ dicts' = IF r.err = NoError THEN Append(dicts, EmptyDict) ELSE dicts
        /\ parent' = IF r.err = NoError THEN Append(parent, 0) ELSE parent
        /\ last' = [Call("__init__", 0, out, r.err, NoIndex, NoCols, <<>>)
                       EXCEPT !.init = InitArgs(df, col_to_stype, target_col),
                              !.missing = r.missing]
        /\ UNCHANGED calls

NextConstruct ==
    \/ \E df \in Tables, sc \in Schemas \cup BadSchemas :
           Construct(df, sc.col_to_stype, sc.target_col)
    \/ \E d \in DOMAIN datasets : Materialize(d)

SpecConstruct == InitConstruct /\ [][NextConstruct]_vars

----------------------------------------------------------------------------
(* Vocabulary of the claims *)

\* the instances that exist
Instances == DOMAIN datasets

\* the instances that are materialized
Materialized == {d \in Instances : datasets[d].is_materialized}

\* What a caller can read of instance d: its table, col_to_stype, target_col
\* and is_materialized, and, once it is materialized, its col_stats (the
\* dictionary its _col_stats field refers to) and its tensor_frame.  The two
\* properties raise before that, so they are <<>> for an unmaterialized d.
View(d) ==
    [df |-> datasets[d].df,
     col_to_stype |-> datasets[d].col_to_stype,
     target_col |-> datasets[d].target_col,
     is_materialized |-> datasets[d].is_materialized,
     col_stats |-> IF datasets[d].is_materialized
                   THEN <<dicts[datasets[d].col_stats]>> ELSE <<>>,
     tensor_frame |-> IF datasets[d].is_materialized
                      THEN datasets[d].tensor_frame ELSE <<>>]

\* the tensor frame of a materialized instance
FrameOf(d) == datasets[d].tensor_frame[1]

\* the row counts of the tensors of a tensor frame
TensorRowCounts(tf) ==
    {Len(tf.x_dict[s]) : s \in DOMAIN tf.x_dict} \cup {Len(tf.y[i]) : i \in DOMAIN tf.y}

\* the list of row positions an index argument stands for
Positions(index) == IF index.kind = "int" THEN <<index.k>> ELSE index.list

\* the last call returned a new instance from op
Returned(op) == last.op = op /\ last.err = NoError /\ last.out # 0

----------------------------------------------------------------------------
(* C1: in every reachable state, every materialized Dataset, however it was
   obtained, has as many rows in its table as in every feature tensor and in
   the target tensor of its tensor frame. *)
C1_RowCountsAgree ==
    \A d \in Materialized : TensorRowCounts(FrameOf(d)) \subseteq {NumRows(datasets[d].df)}

\* a Dataset selected from a selected Dataset, with another row count than
\* the constructed table, holding feature tensors and a target tensor
C1_Witness ==
    \E d \in Materialized :
        /\ parent[d] # 0 /\ parent[parent[d]] # 0
        /\ NumRows(datasets[d].df) \notin {0, NRows}
        /\ NumRows(datasets[parent[d]].df) # NumRows(datasets[d].df)
        /\ DOMAIN FrameOf(d).x_dict # {}
        /\ FrameOf(d).y # <<>>

----------------------------------------------------------------------------
\* what C2 asks of one step: the result of a returning index_select call
C2_Step ==
    (last'.op = "index_select" /\ last'.err = NoError) =>
        LET src == datasets[last'.self]
            new == datasets'[last'.out]
            idx == Positions(last'.index)
            stf == src.tensor_frame[1]
            ntf == new.tensor_frame[1]
        IN  /\ NumRows(new.df) = Len(idx)
            /\ \A i \in DOMAIN idx : new.df.rows[i] = src.df.rows[idx[i] + 1]
            /\ DOMAIN ntf.x_dict = DOMAIN stf.x_dict
            /\ \A s \in DOMAIN stf.x_dict :
                   /\ Len(ntf.x_dict[s]) = Len(idx)
                   /\ \A i \in DOMAIN idx : ntf.x_dict[s][i] = stf.x_dict[s][idx[i] + 1]
            /\ DOMAIN ntf.y = DOMAIN stf.y
            /\ \A t \in DOMAIN stf.y :
                   /\ Len(ntf.y[t]) = Len(idx)
                   /\ \A i \in DOMAIN idx : ntf.y[t][i] = stf.y[t][idx[i] + 1]

(* C2: index_select(idx) on a materialized Dataset, for idx a list of valid
   row positions (repeats allowed) or an int k standing for [k], returns a
   Dataset of len(idx) rows whose row i, in the table, in every feature
   tensor and in the target tensor, is row idx[i] of the source. *)
C2_IndexSelectGathers == [][C2_Step]_vars

\* index_select returned for a list that repeats a row position other than
\* the first, from a Dataset with feature tensors and a target tensor
C2_Witness ==
    /\ Returned("index_select")
    /\ last.index.kind = "list"
    /\ Len(last.index.list) = 2
    /\ last.index.list[1] = last.index.list[2]
    /\ last.index.list[1] > 0
    /\ DOMAIN FrameOf(last.out).x_dict # {}
    /\ FrameOf(last.out).y # <<>>

----------------------------------------------------------------------------
\* what C3 asks of one step: a rejected call
C3_Step ==
    /\ ( /\ last'.op \in {"index_select", "shuffle", "tensor_frame", "col_stats"}
         /\ ~datasets[last'.self].is_materialized )
         => /\ last'.err = NotMaterializedError
            /\ last'.out = 0
            /\ UNCHANGED <<datasets, dicts>>
    /\ ( /\ last'.op = "col_select"
         /\ datasets[last'.self].is_materialized )
         => /\ last'.err = AlreadyMaterializedError
            /\ last'.out = 0
            /\ UNCHANGED <<datasets, dicts>>

(* C3: a guarded operation called in the wrong state raises and has no
   effect: index_select, shuffle and the reads of tensor_frame and col_stats
   on an unmaterialized Dataset raise the not-materialized error, col_select
   on a materialized Dataset raises the already-materialized error, and in
   both cases every Dataset and every column statistic is left as it was and
   no Dataset is returned. *)
C3_GuardsRejectWithoutEffect == [][C3_Step]_vars

\* col_select was rejected on a Dataset that materialize had materialized
C3_Witness ==
    /\ last.op = "col_select"
    /\ last.err = AlreadyMaterializedError
    /\ last.was_materialized
    /\ parent[last.self] = 0

----------------------------------------------------------------------------
\* what C4 asks of one step: materialize on a materialized Dataset
C4_Step ==
    (last'.op = "materialize" /\ datasets[last'.self].is_materialized) =>
        LET d == last'.self
        IN  /\ last'.err = NoError
            /\ last'.out = d
            /\ datasets'[d].tensor_frame = datasets[d].tensor_frame
            /\ dicts'[datasets'[d].col_stats] = dicts[datasets[d].col_stats]
            /\ UNCHANGED <<datasets, dicts>>

(* C4: materialize() on a Dataset that is already materialized returns the
   same instance and recomputes nothing: its tensor frame and its column
   statistics are the same after the call as before it. *)
C4_MaterializeIdempotent == [][C4_Step]_vars

\* materialize was called again on a constructed Dataset that was already
\* materialized and from which a selection had returned a materialized copy
C4_Witness ==
    /\ last.op = "materialize"
    /\ last.was_materialized
    /\ last.err = NoError
    /\ parent[last.self] = 0
    /\ \E d \in Materialized : parent[d] = last.self

----------------------------------------------------------------------------
\* an instance is materialized exactly if it holds a tensor frame
C5_FlagIffFrame ==
    \A d \in Instances : datasets[d].is_materialized <=> datasets[d].tensor_frame # <<>>

\* what C5 asks of one step: the flag only goes from unset to set, by
\* materialize; a copy starts in the state of its source
C5_Step ==
    /\ Instances \subseteq DOMAIN datasets'
    /\ \A d \in Instances :
           /\ datasets[d].is_materialized => datasets'[d].is_materialized
           /\ (~datasets[d].is_materialized /\ datasets'[d].is_materialized)
                  => (last'.op = "materialize" /\ last'.self = d /\ last'.err = NoError)
    /\ \A d \in (DOMAIN datasets') \ Instances :
           datasets'[d].is_materialized = datasets[parent'[d]].is_materialized

(* C5: the materialization state is a two-state machine with one one-way
   transition.  A constructed Dataset starts unmaterialized; an instance
   becomes materialized only by a materialize() call on it that returns; a
   materialized instance never becomes unmaterialized; a copy returned by a
   selection starts in the state its source is in; and in every state an
   instance is materialized exactly if it holds a tensor frame. *)
C5_OneWayMaterialization ==
    /\ \A d \in Instances : ~datasets[d].is_materialized
    /\ []C5_FlagIffFrame
    /\ [][C5_Step]_vars

\* materialize has just materialized a copy that col_select returned, while
\* the Dataset the copy was taken from is still unmaterialized
C5_Witness ==
    /\ last.op = "materialize"
    /\ last.err = NoError
    /\ ~last.was_materialized
    /\ datasets[last.self].is_materialized
    /\ parent[last.self] # 0
    /\ ~datasets[parent[last.self]].is_materialized

----------------------------------------------------------------------------
(* C6: in every reachable state, a materialized Dataset whose target column
   is categorical with two categories has them stored in
   col_stats[target_col][COUNT] in ascending order, each with its own count,
   whatever is done with the Datasets it was copied from or that were copied
   from it. *)
C6_BinaryTargetSorted ==
    \A d \in Materialized :
        LET self == datasets[d]
            t == self.target_col
            count == dicts[self.col_stats][t].COUNT
            column == DfCol(datasets[1].df, t)
        IN  (t # None /\ StypeOf(self.col_to_stype, t) = categorical /\ Len(count[1]) = 2)
                => /\ count[1][1] < count[1][2]
                   /\ \A k \in 1..2 : count[2][k] = Occurrences(column, count[1][k])

----------------------------------------------------------------------------
\* the places (stype, position) of column c in the column-name lists
PlacesOf(tf, c) ==
    {<<s, j>> \in UNION {{s} \X DOMAIN tf.col_names_dict[s] : s \in DOMAIN tf.col_names_dict} :
        tf.col_names_dict[s][j] = c}

(* C7: after materialize(), the mapped tensor of the target column is the
   target tensor of the tensor frame and is in no feature tensor and in no
   column-name list; the target tensor is present exactly if a target column
   is declared; every other column of col_to_stype is in exactly one
   column-name list, the one of its own stype. *)
C7_TargetRouted ==
    \A d \in Materialized :
        LET self == datasets[d]
            tf == FrameOf(d)
            t == self.target_col
            keys == Keys(self.col_to_stype)
            column == DfCol(self.df, t)
        IN  /\ (tf.y # <<>>) <=> (t # None)
            /\ PlacesOf(tf, t) = {}
            /\ \A i \in DOMAIN keys :
                   keys[i] # t => PlacesOf(tf, keys[i]) \in
                                      {{<<self.col_to_stype[i].stype, j>>} : j \in 1..Len(keys)}
            /\ \A s \in DOMAIN tf.x_dict : \A r \in DOMAIN tf.x_dict[s] :
                   Len(tf.x_dict[s][r]) = Len(tf.col_names_dict[s])
            /\ t # None =>
                   /\ DOMAIN tf.y[1] = DOMAIN column
                   /\ StypeOf(self.col_to_stype, t) = numerical => tf.y[1] = column
                   /\ StypeOf(self.col_to_stype, t) = categorical =>
                          \A i, j \in DOMAIN column :
                              /\ tf.y[1][i] \in 0..(Cardinality(Range(DfCol(datasets[1].df, t))) - 1)
                              /\ (tf.y[1][i] = tf.y[1][j]) <=> (column[i] = column[j])

\* the Dataset {a: numerical, b: categorical, t: categorical} with target t,
\* materialized: one numerical and one categorical feature column and a target
C7_Witness ==
    \E d \in Materialized :
        /\ Keys(datasets[d].col_to_stype) = <<"a", "b", "t">>
        /\ datasets[d].target_col = "t"
        /\ NumRows(datasets[d].df) = NRows
        /\ FrameOf(d).col_names_dict = [s \in {numerical, categorical} |->
                                           IF s = numerical THEN <<"a">> ELSE <<"b">>]
        /\ \A s \in {numerical, categorical} :
               /\ Len(FrameOf(d).x_dict[s]) = NRows
               /\ \A r \in 1..NRows : Len(FrameOf(d).x_dict[s][r]) = 1
        /\ Len(FrameOf(d).y[1]) = NRows

----------------------------------------------------------------------------
\* mapper.forward(self.df[col]) with the mapper of the column's stype
MappedColumn(d, col) ==
    LET self == datasets[d]
    IN  IF StypeOf(self.col_to_stype, col) = numerical
        THEN NumericalForward(DfCol(self.df, col))
        ELSE CategoricalForward(dicts[self.col_stats][col].COUNT[1], DfCol(self.df, col))

(* C8: after materialize(), the column-name list of each stype is the keys
   of col_to_stype that have the stype and are not the target, in the order
   of col_to_stype; column j of the stype's feature tensor is the mapped
   tensor of the j-th name; the feature tensors and the column-name lists are
   keyed by the same stypes. *)
C8_ColumnOrder ==
    \A d \in Materialized :
        LET self == datasets[d]
            tf == FrameOf(d)
            NamesOf(s) == SelectSeq(Keys(self.col_to_stype),
                              LAMBDA c : c # self.target_col /\ StypeOf(self.col_to_stype, c) = s)
            used == {s \in {numerical, categorical, text_embedded} : NamesOf(s) # <<>>}
        IN  /\ DOMAIN tf.x_dict = used
            /\ DOMAIN tf.col_names_dict = used
            /\ \A s \in used :
                   /\ tf.col_names_dict[s] = NamesOf(s)
                   /\ Len(tf.x_dict[s]) = NumRows(self.df)
                   /\ \A r \in DOMAIN tf.x_dict[s] :
                          tf.x_dict[s][r] = [j \in DOMAIN NamesOf(s) |->
                                                MappedColumn(d, NamesOf(s)[j])[r]]

\* a materialized Dataset with two categorical feature columns that
\* col_to_stype lists in another order than the table
C8_Witness ==
    \E d \in Materialized :
        /\ NumRows(datasets[d].df) > 0
        /\ categorical \in DOMAIN FrameOf(d).col_names_dict
        /\ FrameOf(d).col_names_dict[categorical] = <<"c", "b">>
        /\ \E r \in DOMAIN FrameOf(d).x_dict[categorical] :
               FrameOf(d).x_dict[categorical][r][1] # FrameOf(d).x_dict[categorical][r][2]

----------------------------------------------------------------------------
\* what C9 asks of one step: the result of a returning col_select call
C9_Step ==
    (last'.op = "col_select" /\ last'.err = NoError) =>
        LET src == datasets[last'.self]
            new == datasets'[last'.out]
            t == src.target_col
            requested == IF last'.cols.kind = "str" THEN <<last'.cols.name>>
                         ELSE last'.cols.list
            expected == IF t # None /\ t \notin Range(requested)
                        THEN requested \o <<t>> ELSE requested
        IN  /\ ~src.is_materialized
            /\ ~new.is_materialized
            /\ new.tensor_frame = <<>>
            /\ new.target_col = t
            /\ t # None => t \in Range(Keys(new.col_to_stype))
            /\ Keys(new.col_to_stype) = expected
            /\ \A i \in DOMAIN expected :
                   new.col_to_stype[i].stype = StypeOf(src.col_to_stype, expected[i])
            /\ new.df.cols = expected
            /\ DOMAIN new.df.rows = DOMAIN src.df.rows
            /\ \A r \in DOMAIN src.df.rows :
                   /\ DOMAIN new.df.rows[r] = Range(expected)
                   /\ \A c \in Range(expected) : new.df.rows[r][c] = src.df.rows[r][c]

(* C9: col_select(cols) on an unmaterialized Dataset returns an
   unmaterialized Dataset whose col_to_stype is the requested columns, then
   the target column if one is declared and was not requested, each with its
   stype in the source, and whose table has these columns with the source's
   values; a declared target is never dropped. *)
C9_ColSelectProjects == [][C9_Step]_vars

\* col_select returned for a list of two columns without the declared target
C9_Witness ==
    /\ Returned("col_select")
    /\ last.cols.kind = "list"
    /\ Len(last.cols.list) = 2
    /\ datasets[last.self].target_col # None
    /\ datasets[last.self].target_col \notin Range(last.cols.list)
    /\ Len(datasets[last.out].col_to_stype) = 3

----------------------------------------------------------------------------
\* View(d) in the state after the step
ViewAfter(d) ==
    [df |-> datasets'[d].df,
     col_to_stype |-> datasets'[d].col_to_stype,
     target_col |-> datasets'[d].target_col,
     is_materialized |-> datasets'[d].is_materialized,
     col_stats |-> IF datasets'[d].is_materialized
                   THEN <<dicts'[datasets'[d].col_stats]>> ELSE <<>>,
     tensor_frame |-> IF datasets'[d].is_materialized
                      THEN datasets'[d].tensor_frame ELSE <<>>]

\* what C10 asks of one step: a call on x leaves its source and its copies
C10_Step ==
    \A x, y \in Instances :
        (last'.self = x /\ (parent[y] = x \/ parent[x] = y)) => ViewAfter(y) = View(y)

(* C10: index_select and col_select leave the source as it is and return a
   copy that shares no state with it: once d2 is returned by a selection on
   d, no call on d2 changes what can be read of d (table, col_to_stype,
   target_col, is_materialized, col_stats, tensor_frame), and no call on d
   changes what can be read of d2. *)
C10_CopiesAreIndependent == [][C10_Step]_vars

----------------------------------------------------------------------------
\* what C11 asks of one step: the outcome of a construction
C11_Step ==
    (last'.op = "__init__") =>
        LET args == last'.init
            keys == Range(Keys(args.col_to_stype))
            specified == keys \cup (IF args.target_col = None THEN {} ELSE {args.target_col})
            absent == specified \ Range(args.df_cols)
        IN  /\ absent # {} =>
                   /\ last'.err = MissingColumnsError
                   /\ last'.missing = absent
                   /\ last'.out = 0
                   /\ UNCHANGED <<datasets, dicts>>
            /\ (absent = {} /\ args.target_col \in keys \cup {None}) =>
                   /\ last'.err = NoError
                   /\ last'.out \in (DOMAIN datasets') \ Instances
                   /\ \A d \in Instances : datasets'[d] = datasets[d]
                   /\ LET new == datasets'[last'.out]
                      IN  /\ new.df.cols = args.df_cols
                          /\ new.col_to_stype = args.col_to_stype
                          /\ new.target_col = args.target_col
                          /\ ~new.is_materialized
                          /\ new.tensor_frame = <<>>
                          /\ dicts'[new.col_stats] = EmptyDict

(* C11: a construction whose col_to_stype keys or target_col include a
   column that the table does not have raises an error that names exactly
   the specified columns that are not columns of the table, and produces no
   Dataset; a construction whose specified columns are all in the table and
   whose target, if any, is a key of col_to_stype returns an unmaterialized
   Dataset with empty column statistics and no tensor frame. *)
C11_ConstructionChecksColumns == [][C11_Step]_vars

----------------------------------------------------------------------------
\* the columns of a col_to_stype whose stype is neither numerical nor categorical
UnsupportedCols(c2s) == {i \in DOMAIN c2s : c2s[i].stype \notin {numerical, categorical}}

\* what C12 asks of one step: materialize, and the reads of the two
\* properties, on a Dataset that declares a column of an unsupported stype
C12_Step ==
    LET d == last'.self
    IN  (d \in Instances /\ UnsupportedCols(datasets[d].col_to_stype) # {}) =>
            /\ last'.op = "materialize" =>
                   /\ last'.err \in {UnsupportedStypeStats, UnsupportedStype}
                   /\ last'.out = 0
                   /\ ~datasets'[d].is_materialized
                   /\ datasets'[d].tensor_frame = <<>>
                   /\ UNCHANGED datasets
            /\ last'.op \in {"tensor_frame", "col_stats"} =>
                   last'.err = NotMaterializedError

(* C12: materialize() on a Dataset whose col_to_stype declares a column of a
   stype other than numerical and categorical raises an unsupported-stype
   error and leaves the Dataset unmaterialized, with no tensor frame stored;
   the column is not skipped; reading tensor_frame or col_stats of such a
   Dataset raises the not-materialized error, also after the failed call. *)
C12_UnsupportedStypeAborts == [][C12_Step]_vars

\* materialize has just failed on a Dataset whose first column is supported
\* and was processed (its statistics are in the dictionary) before the
\* unsupported column was met
C12_Witness ==
    /\ last.op = "materialize"
    /\ last.err \in {UnsupportedStypeStats, UnsupportedStype}
    /\ UnsupportedCols(datasets[last.self].col_to_stype) # {}
    /\ datasets[last.self].col_to_stype[1].stype = categorical
    /\ dicts[datasets[last.self].col_stats] # EmptyDict
    /\ ~datasets[last.self].is_materialized

----------------------------------------------------------------------------
\* a key that stands for columns: a str, or a non-empty list or tuple that
\* starts with a str
IsColumnKey(key) ==
    \/ key.kind = "str"
    \/ key.kind \in {"list", "tuple"} /\ key.elems # <<>> /\ Head(key.elems).type = "str"

\* the column names a key asks for
NamesOfKey(key) ==
    IF key.kind = "str" THEN <<key.name>> ELSE [i \in DOMAIN key.elems |-> key.elems[i].str]

\* what C13 asks of one step: the outcome of dataset[key]
C13_Step ==
    (last'.op = "__getitem__") =>
        LET key == last'.key
            src == datasets[last'.self]
            new == datasets'[last'.out]
            t == src.target_col
        IN  /\ (IsColumnKey(key) /\ src.is_materialized) =>
                   /\ last'.err = AlreadyMaterializedError
                   /\ last'.out = 0
                   /\ UNCHANGED <<datasets, dicts>>
            /\ (IsColumnKey(key) /\ ~src.is_materialized) =>
                   /\ last'.err \in {NoError, KeyError, AttributeError}
                   /\ last'.err = NoError =>
                          /\ ~new.is_materialized
                          /\ new.df.cols = Keys(new.col_to_stype)
                          /\ NumRows(new.df) = NumRows(src.df)
                          /\ Keys(new.col_to_stype) =
                                 IF t # None /\ t \notin Range(NamesOfKey(key))
                                 THEN NamesOfKey(key) \o <<t>> ELSE NamesOfKey(key)
            /\ (~IsColumnKey(key) /\ ~src.is_materialized) =>
                   /\ last'.err = NotMaterializedError
                   /\ last'.out = 0
                   /\ UNCHANGED <<datasets, dicts>>
            /\ (~IsColumnKey(key) /\ src.is_materialized) =>
                   /\ last'.err \in {NoError, IlocError}
                   /\ last'.err = NoError =>
                          /\ new.is_materialized
                          /\ new.col_to_stype = src.col_to_stype
                          /\ new.df.cols = src.df.cols
                          /\ Range(new.df.rows) \subseteq Range(src.df.rows)
                          /\ key.kind = "list" =>
                                 /\ NumRows(new.df) = Len(key.elems)
                                 /\ \A i \in DOMAIN key.elems :
                                        new.df.rows[i] = src.df.rows[key.elems[i].int + 1]
                          /\ (key.kind = "index" /\ key.index.kind = "int") =>
                                 new.df.rows = <<src.df.rows[key.index.k + 1]>>

(* C13: dataset[key] selects columns exactly if key is a str or a non-empty
   list or tuple whose first element is a str, and selects rows for every
   other key (an int, a list of ints, a slice, an index tensor, the empty
   list): a column key on a materialized Dataset raises the
   already-materialized error and on an unmaterialized one gives what
   col_select gives; a row key on an unmaterialized Dataset raises the
   not-materialized error and on a materialized one gives what index_select
   gives. *)
C13_GetItemDispatch == [][C13_Step]_vars

\* dataset[[0, "a"]] on an unmaterialized Dataset was taken for a row
\* selection: the first element decides
C13_Witness ==
    /\ last.op = "__getitem__"
    /\ last.key = ListKey(<<IntElem(0), StrElem("a")>>)
    /\ ~last.was_materialized
    /\ last.err = NotMaterializedError

----------------------------------------------------------------------------
\* the ints a bound of a slice may stand for on n rows: the nearest integers
\* to f * n for a fraction f (two of them when f * n lies halfway), the int
\* itself for an int
NearestBounds(bound, n) ==
    IF bound.kind = "float"
    THEN {b \in 0..(n + 1) :
             /\ 2 * b * bound.den - 2 * bound.num * n <= bound.den
             /\ 2 * bound.num * n - 2 * b * bound.den <= bound.den}
    ELSE {bound.int}

\* the positions, in ascending order, that slice(start, stop, step) selects
\* from n rows; none says whether the bound is absent
SlicedPositions(n, start, no_start, stop, no_stop, step) ==
    LET Norm(b) == IF b < 0 THEN (IF b + n < 0 THEN 0 ELSE b + n) ELSE IF b > n THEN n ELSE b
        lo == IF no_start THEN 0 ELSE Norm(start)
        hi == IF no_stop THEN n ELSE Norm(stop)
        chosen == {i \in 0..(n - 1) : i >= lo /\ i < hi /\ (i - lo) % step = 0}
    IN  [k \in 1..Cardinality(chosen) |->
            CHOOSE i \in chosen : Cardinality({j \in chosen : j < i}) = k - 1]

\* what C14 asks of one step: the result of index_select with a slice
C14_Step ==
    (last'.op = "index_select" /\ last'.err = NoError /\ last'.index.kind = "slice") =>
        LET src == datasets[last'.self]
            new == datasets'[last'.out]
            index == last'.index
            n == NumRows(src.df)
            step == IF index.step.kind = "none" THEN 1 ELSE index.step.int
            stf == src.tensor_frame[1]
            ntf == new.tensor_frame[1]
        IN  \E start \in NearestBounds(index.start, n), stop \in NearestBounds(index.stop, n) :
                LET idx == SlicedPositions(n, start, index.start.kind = "none",
                                           stop, index.stop.kind = "none", step)
                IN  /\ new.df.rows = [i \in DOMAIN idx |-> src.df.rows[idx[i] + 1]]
                    /\ DOMAIN ntf.x_dict = DOMAIN stf.x_dict
                    /\ \A s \in DOMAIN stf.x_dict :
                           ntf.x_dict[s] = [i \in DOMAIN idx |-> stf.x_dict[s][idx[i] + 1]]
                    /\ DOMAIN ntf.y = DOMAIN stf.y
                    /\ \A t \in DOMAIN stf.y :
                           ntf.y[t] = [i \in DOMAIN idx |-> stf.y[t][idx[i] + 1]]

(* C14: index_select with a slice on a materialized Dataset of n rows takes a
   bound given as a fraction f for f * n rounded to the nearest integer and
   an int or absent bound as it is, and applies the slice so obtained to the
   table and to every tensor of the tensor frame; slice(None, 0.5) on 10 rows
   selects rows 0..4. *)
C14_FractionalSlice == [][C14_Step]_vars

\* index_select(slice(None, 0.5)) on the materialized Dataset of 10 rows
\* returned its rows 0..4
C14_Witness ==
    /\ Returned("index_select")
    /\ last.index = SliceIndex(NoBound, FloatBound(1, 2), NoBound)
    /\ NumRows(datasets[last.self].df) = 10
    /\ datasets[last.out].df.rows = SubSeq(datasets[last.self].df.rows, 1, 5)
    /\ FrameOf(last.out).y[1] = SubSeq(FrameOf(last.self).y[1], 1, 5)

----------------------------------------------------------------------------
\* what C15 asks of one step: shuffle on a materialized Dataset
C15_Step ==
    (last'.op = "shuffle" /\ datasets[last'.self].is_materialized) =>
        LET src == datasets[last'.self]
            n == NumRows(src.df)
            perm == last'.index.list
            stf == src.tensor_frame[1]
        IN  /\ last'.err = NoError
            /\ last'.out \in (DOMAIN datasets') \ Instances
            /\ Len(perm) = n
            /\ \A p \in 0..(n - 1) : Cardinality({i \in DOMAIN perm : perm[i] = p}) = 1
            /\ LET new == datasets'[last'.out]
                   ntf == new.tensor_frame[1]
               IN  /\ NumRows(new.df) = n
                   /\ \A i \in 1..n : new.df.rows[i] = src.df.rows[perm[i] + 1]
                   /\ DOMAIN ntf.x_dict = DOMAIN stf.x_dict
                   /\ \A s \in DOMAIN stf.x_dict :
                          /\ Len(ntf.x_dict[s]) = n
                          /\ \A i \in 1..n : ntf.x_dict[s][i] = stf.x_dict[s][perm[i] + 1]
                   /\ DOMAIN ntf.y = DOMAIN stf.y
                   /\ \A t \in DOMAIN stf.y :
                          /\ Len(ntf.y[t]) = n
                          /\ \A i \in 1..n : ntf.y[t][i] = stf.y[t][perm[i] + 1]
            /\ \A d \in Instances : datasets'[d] = datasets[d]
            /\ dicts' = dicts
            /\ last'.ret_perm = IF last'.return_perm THEN <<perm>> ELSE <<>>

(* C15: shuffle() on a materialized Dataset of n rows draws a permutation
   perm of 0..n-1 and returns index_select(perm): a new Dataset of n rows
   whose row i, in the table and in every tensor, is row perm[i] of the
   source; the source is left as it is; with return_perm true the
   permutation that was used is returned with the Dataset, otherwise the
   Dataset alone. *)
C15_ShufflePermutes == [][C15_Step]_vars

\* shuffle(return_perm=True) returned a Dataset and a permutation that moves
\* every row of a Dataset with feature tensors and a target tensor
C15_Witness ==
    /\ Returned("shuffle")
    /\ last.return_perm
    /\ last.ret_perm # <<>>
    /\ NumRows(datasets[last.self].df) = NRows
    /\ \A i \in DOMAIN last.ret_perm[1] : last.ret_perm[1][i] # i - 1
    /\ datasets[last.out].df.rows # datasets[last.self].df.rows
    /\ DOMAIN FrameOf(last.out).x_dict # {}
    /\ FrameOf(last.out).y # <<>>

----------------------------------------------------------------------------
\* the column statistics and the tensor frame that materialize gives an
\* instance with the fields of self and a dictionary of its own
MaterializedAlone(self) ==
    LET filled == FillColStats(self, 1, EmptyDict)
    IN  to_tensor_frame(self, filled.col_stats)

(* C16: materialize() calls on distinct instances may run side by side, step
   by step, in any order: every instance whose call has returned has the
   column statistics and the tensor frame that materialize gives it when it
   runs alone on an instance with a dictionary of its own. *)
C16_InterleavedAsAlone ==
    \A d \in Materialized :
        /\ dicts[datasets[d].col_stats] = MaterializedAlone(datasets[d]).col_stats
        /\ FrameOf(d) = MaterializedAlone(datasets[d]).tensor_frame

----------------------------------------------------------------------------
\* the tensor of column col in the tensor frame of instance d: the target
\* tensor, or the column's place in the feature tensor of its stype
TensorOfColumn(d, col) ==
    LET self == datasets[d]
        tf == FrameOf(d)
        stype == StypeOf(self.col_to_stype, col)
        j == CHOOSE i \in DOMAIN tf.col_names_dict[stype] : tf.col_names_dict[stype][i] = col
    IN  IF col = self.target_col THEN tf.y[1]
        ELSE [r \in DOMAIN tf.x_dict[stype] |-> tf.x_dict[stype][r][j]]

\* the categorical columns of instance d
CategoricalCols(d) ==
    {c \in Range(Keys(datasets[d].col_to_stype)) :
        StypeOf(datasets[d].col_to_stype, c) = categorical}

(* C17: for every materialized Dataset and every categorical column of it,
   feature or target, the categories stored in col_stats[col][COUNT] are the
   ones the column's tensor was indexed against: a row whose value is the
   k-th stored category (counting from 0) has k in the tensor; for a binary
   target this is the re-sorted order. *)
C17_StoredCategoriesIndexTensor ==
    \A d \in Materialized : \A col \in CategoricalCols(d) :
        LET index == dicts[datasets[d].col_stats][col].COUNT[1]
            tensor == TensorOfColumn(d, col)
            ser == DfCol(datasets[d].df, col)
        IN  /\ DOMAIN tensor = DOMAIN ser
            /\ \A r \in DOMAIN ser : \A k \in DOMAIN index :
                   ser[r] = index[k] => tensor[r] = k - 1

----------------------------------------------------------------------------
(* C18: in every reachable state, the keys of the col_stats of a materialized
   Dataset are the keys of its own col_to_stype: one entry for every column
   it declares and none for any other column, also for a Dataset that
   col_select returned and for the Dataset it was selected from, whichever
   of them is materialized first. *)
C18_StatsKeysAreColumns ==
    \A d \in Materialized :
        DOMAIN dicts[datasets[d].col_stats] = Range(Keys(datasets[d].col_to_stype))

----------------------------------------------------------------------------
\* what C19 asks of one step: what index_select leaves as it is
C19_Step ==
    (last'.op = "index_select" /\ last'.err = NoError) =>
        LET src == datasets[last'.self]
            new == datasets'[last'.out]
        IN  /\ new.is_materialized
            /\ new.col_to_stype = src.col_to_stype
            /\ new.target_col = src.target_col
            /\ dicts'[new.col_stats] = dicts[src.col_stats]
            /\ dicts'[src.col_stats] = dicts[src.col_stats]
            /\ new.tensor_frame[1].col_names_dict = src.tensor_frame[1].col_names_dict

(* C19: index_select changes the rows and nothing else: the Dataset it
   returns is materialized and has the col_to_stype, the target_col and the
   col_stats of the source, which are not computed again from the selected
   rows, and its tensor frame has the source's column-name lists. *)
C19_IndexSelectKeepsColumns == [][C19_Step]_vars

\* index_select returned rows whose own statistics differ from the ones that
\* the source holds and the result keeps
C19_Witness ==
    /\ Returned("index_select")
    /\ NumRows(datasets[last.out].df) \in 1..(NRows - 1)
    /\ dicts[datasets[last.out].col_stats] # EmptyDict
    /\ FillColStats(datasets[last.out], 1, EmptyDict).col_stats
           # dicts[datasets[last.out].col_stats]

----------------------------------------------------------------------------
\* what C20 asks of one step: the caller's cols after a col_select call
C20_Step ==
    (last'.op = "col_select" /\ last'.err = NoError) =>
        /\ last'.cols_after = last'.cols
        /\ ColsUsed(datasets[last'.self], last'.cols_after)
               = ColsUsed(datasets[last'.self], last'.cols)

(* C20: col_select(cols) leaves the sequence that the caller passed as cols
   as it was, with the same elements, also when a target column is declared
   and is not among them; a second call with the same sequence object selects
   the same columns as the first. *)
C20_ColSelectKeepsArgument == [][C20_Step]_vars

====
